---- MODULE Spec2Model ----
(***************************************************************************)
(* Model of the devops task runner (github.com/jgfranco17/devops):        *)
(* the shell executor, Operation.Run, ProjectDefinition.ValidateTo, the   *)
(* build/test/doctor commands, the signal listener of the command         *)
(* registry and main.                                                      *)
(***************************************************************************)
EXTENDS Integers, Sequences, FiniteSets, TLC

\* ------------------------------------------------------------------------
\* Bounds of the model
\* ------------------------------------------------------------------------
MaxSteps == 3
MaxSignals == 2
MaxIdLen == 2

\* ------------------------------------------------------------------------
\* Go values: errors, slices, maps
\* ------------------------------------------------------------------------
NilError == [isNil |-> TRUE, msg |-> ""]

NewError(m) == [isNil |-> FALSE, msg |-> m]

\* A Go slice: the nil slice and the empty slice both have length 0.
NilSlice == [isNil |-> TRUE, elems |-> <<>>]

MkSlice(s) == [isNil |-> FALSE, elems |-> s]

SliceLen(s) == Len(s.elems)

EmptyMap == [k \in {} |-> ""]

RECURSIVE JoinWith(_, _)
JoinWith(s, sep) ==
  IF Len(s) = 0 THEN ""
  ELSE IF Len(s) = 1 THEN s[1]
  ELSE s[1] \o sep \o JoinWith(Tail(s), sep)

\* fmt's %v of a []string: the elements separated by spaces, in brackets.
FmtSlice(s) == "[" \o JoinWith(s, " ") \o "]"

\* fmt's %w / %v of an error value.
FmtErr(e) == IF e.isNil THEN "%!w(<nil>)" ELSE e.msg

\* All orders in which a range over a Go map may visit the keys.
Perms(S) ==
  {p \in [1..Cardinality(S) -> S] : \A i, j \in 1..Cardinality(S) : (p[i] = p[j]) => (i = j)}

\* ------------------------------------------------------------------------
\* The process environment and the shell
\* ------------------------------------------------------------------------
\* os.Environ() of the process that runs the CLI.
AmbientEnv == <<"HOME=/root", "FOO=old">>

\* What bash does with each command line used as a step.
Commands == {"echo a", "echo e >&2; exit 2"}

CommandBehaviour(cmd) ==
  CASE cmd = "echo a" -> [status |-> 0, out |-> "a\n", err |-> ""]
    [] cmd = "echo e >&2; exit 2" -> [status |-> 2, out |-> "", err |-> "e\n"]

\* ------------------------------------------------------------------------
\* executor.Result and DefaultExecutor
\* ------------------------------------------------------------------------
Result(out, err, code) == [Stdout |-> out, Stderr |-> err, ExitCode |-> code]

\* Mutant: a nonzero exit status is not reported as an error.
ExecErrorOfNil(status) == NilError

\* The error DefaultExecutor.Exec returns for a command that ran to
\* completion with the given exit status.
ExecErrorOf(status) ==
  IF status = 0 THEN NilError ELSE NewError("exit status " \o ToString(status))

\* The result of DefaultExecutor.Exec for a command that ran to completion.
ExecCompleted(cmd) ==
  [result |-> Result(CommandBehaviour(cmd).out, CommandBehaviour(cmd).err,
                     CommandBehaviour(cmd).status),
   err |-> ExecErrorOf(CommandBehaviour(cmd).status)]

\* Mutant: the exit code of a cancelled command is left at its zero value.
ExecCancelledZero(started) ==
  [result |-> Result("", "", 0),
   err |-> IF started THEN NewError("signal: killed") ELSE NewError("context canceled")]

\* The result of DefaultExecutor.Exec when the context ended before the
\* process exited: the child is killed, or never started.
ExecCancelled(started) ==
  [result |-> Result("", "", -1),
   err |-> IF started THEN NewError("signal: killed") ELSE NewError("context canceled")]

\* The result of DefaultExecutor.Exec when the shell cannot be started.
ExecUnlaunchable ==
  [result |-> Result("", "", -1), err |-> NewError("exec: \"bash\": executable file not found in $PATH")]

\* DefaultExecutor.AddEnv: Env is replaced by the ambient environment
\* followed by the given entries.
DefaultAddEnv(env) == AmbientEnv \o env

\* The environment a command run by DefaultExecutor.Exec sees: the process
\* environment; the stored Env is not applied to the command.
CommandEnv(env) == AmbientEnv

\* What a test double of ShellExecutor may return from Exec.
MockReturns ==
  {[result |-> Result("hello", "", 0), err |-> NilError],
   [result |-> Result("", "command failed", 1), err |-> NilError],
   [result |-> Result("", "", 0), err |-> NewError("execution failed")]}

NoPending == [result |-> Result("", "", 0), err |-> NewError("<pending>")]

\* ------------------------------------------------------------------------
\* config.Operation and config.ProjectDefinition
\* ------------------------------------------------------------------------
Operation(ff, env, steps) == [FailFast |-> ff, Env |-> env, Steps |-> steps]

ZeroOperation == Operation(FALSE, EmptyMap, NilSlice)

EnvMaps == {EmptyMap, [k \in {"FOO"} |-> "bar"], [k \in {"FOO", "NEW"} |-> IF k = "FOO" THEN "bar" ELSE "x"]}

RECURSIVE SeqsUpTo(_, _)
SeqsUpTo(S, n) ==
  IF n = 0 THEN {<<>>}
  ELSE SeqsUpTo(S, n - 1) \cup {Append(s, c) : s \in {t \in SeqsUpTo(S, n - 1) : Len(t) = n - 1}, c \in S}

StepSlices == {NilSlice} \cup {MkSlice(s) : s \in SeqsUpTo(Commands, MaxSteps)}

Operations == {Operation(ff, env, st) : ff \in BOOLEAN, env \in EnvMaps, st \in StepSlices}

\* ------------------------------------------------------------------------
\* Project IDs: strings as sequences of characters
\* ------------------------------------------------------------------------
Letters == {"a", "Z"}
Digits == {"1"}
Spaces == {" "}

\* A character outside ASCII: the euro sign, three bytes in UTF-8 (E2 82 AC).
\* It is not a letter.
Euro == "<U+20AC>"

\* The number of bytes of the character in the Go string.
Utf8Len(c) == IF c = Euro THEN 3 ELSE 1

\* rune(id[0]): the first byte of the character, read as a code point. The
\* first byte of the euro sign is E2, the code point of a-circumflex.
FirstByte(c) == IF c = Euro THEN "<U+00E2>" ELSE c

\* unicode.IsLetter
IsLetter(r) == r \in Letters \cup {"<U+00E2>"}

\* unicode.IsSpace
IsSpace(c) == c \in Spaces

\* The character class [a-zA-Z] of validNamePattern.
IsAsciiLetter(c) == c \in Letters

\* The character class [a-zA-Z0-9_-] of validNamePattern.
IsNameChar(c) == c \in Letters \cup Digits \cup {"_", "-"}

IdChars == {"a", "1", "-", " ", "!", Euro}

RECURSIVE Rep(_, _)
Rep(c, n) == IF n = 0 THEN <<>> ELSE <<c>> \o Rep(c, n - 1)

LongIDs == {Rep("a", 29), Rep("a", 30), <<"1">> \o Rep("a", 29), Rep(Euro, 10)}

ProjectIDs == SeqsUpTo(IdChars, MaxIdLen) \cup LongIDs

\* The Go string of a character sequence.
Str(cs) == JoinWith(cs, "")

\* len(id): the length of the Go string in bytes.
RECURSIVE ByteLen(_)
ByteLen(cs) == IF Len(cs) = 0 THEN 0 ELSE Utf8Len(cs[1]) + ByteLen(Tail(cs))

NameLimit == 30

\* validateProjectName: the first violated rule, or nil.
validateProjectName(id) ==
  IF ByteLen(id) >= NameLimit
    THEN NewError("ID must be under 30 characters (current: " \o ToString(ByteLen(id)) \o ")")
  ELSE IF id = <<>>
    THEN NewError("ID cannot be empty")
  ELSE IF ~IsLetter(FirstByte(id[1]))
    THEN NewError("ID must start with a letter")
  ELSE IF \E i \in 1..Len(id) : IsSpace(id[i])
    THEN NewError("ID cannot contain whitespace")
  ELSE IF ~(IsAsciiLetter(id[1]) /\ \A i \in 2..Len(id) : IsNameChar(id[i]))
    THEN NewError("ID can only contain letters, numbers, dashes, and underscores")
  ELSE NilError

\* ------------------------------------------------------------------------
\* ProjectDefinition and ValidateTo
\* ------------------------------------------------------------------------
Codebase(lang, deps, install, test, build) ==
  [Language |-> lang, Dependencies |-> deps, Install |-> install, Test |-> test, Build |-> build]

ProjectDefinition(id, name, url, cb) ==
  [ID |-> id, Name |-> name, RepoUrl |-> url, Codebase |-> cb]

\* The zero value ProjectDefinition{}.
ZeroDefinition ==
  ProjectDefinition(<<>>, "", "", Codebase("", NilSlice, ZeroOperation, ZeroOperation, ZeroOperation))

\* outputs.PrintColoredMessageTo: one line of the report ([x] stands for the
\* cross glyph, [v] for the check mark).
Line(color, text) == [color |-> color, text |-> text]

Check(lines, fixes, suggestions) == [lines |-> lines, fixes |-> fixes, suggestions |-> suggestions]

CheckID(d) ==
  IF d.ID = <<>>
    THEN Check(<<Line("red", "[x] ID is required")>>, <<"Set an ID for the project">>, <<>>)
  ELSE IF ~validateProjectName(d.ID).isNil
    THEN Check(<<Line("red", "[x] Invalid ID: " \o validateProjectName(d.ID).msg)>>,
               <<"Use a valid project ID (alphanumeric/dashes/underscores, starts with letter, no whitespace, under 30 chars)">>,
               <<>>)
  ELSE Check(<<Line("green", "[v] ID: " \o Str(d.ID))>>, <<>>, <<>>)

CheckName(d) ==
  IF d.Name # ""
    THEN Check(<<Line("green", "[v] Name: " \o d.Name)>>, <<>>, <<>>)
  ELSE Check(<<>>, <<>>, <<>>)

CheckRepoUrl(d) ==
  IF d.RepoUrl = ""
    THEN Check(<<Line("red", "[x] Repository URL is required")>>, <<"Set a repository URL for the project">>, <<>>)
  ELSE Check(<<Line("green", "[v] Repository URL: " \o d.RepoUrl)>>, <<>>, <<>>)

CheckLanguage(d) ==
  IF d.Codebase.Language = ""
    THEN Check(<<Line("red", "[x] Language is required")>>, <<"Set a language in the codebase">>, <<>>)
  ELSE Check(<<Line("green", "[v] Language: " \o d.Codebase.Language)>>, <<>>, <<>>)

CheckDependencies(d) ==
  IF ~d.Codebase.Dependencies.isNil
    THEN Check(<<Line("green", "[v] Dependencies: " \o FmtSlice(d.Codebase.Dependencies.elems))>>, <<>>, <<>>)
  ELSE Check(<<Line("yellow", "[~] No dependencies defined")>>, <<>>, <<>>)

CheckInstall(d) ==
  IF ~d.Codebase.Install.Steps.isNil
    THEN Check(<<Line("green", "[v] Install steps (" \o ToString(SliceLen(d.Codebase.Install.Steps)) \o ")")>>, <<>>, <<>>)
  ELSE Check(<<>>, <<>>, <<>>)

CheckTest(d) ==
  IF ~d.Codebase.Test.Steps.isNil
    THEN Check(<<Line("green", "[v] Test steps (" \o ToString(SliceLen(d.Codebase.Test.Steps)) \o ")")>>, <<>>, <<>>)
  ELSE Check(<<Line("yellow", "[~] No test steps defined")>>, <<>>, <<"Set test steps in the codebase">>)

CheckBuild(d) ==
  IF ~d.Codebase.Build.Steps.isNil
    THEN Check(<<Line("green", "[v] Build steps (" \o ToString(SliceLen(d.Codebase.Build.Steps)) \o ")")>>, <<>>, <<>>)
  ELSE Check(<<Line("yellow", "[~] No build steps defined")>>, <<>>, <<"Set build steps in the codebase">>)

\* Mutant: the sweep stops after the ID check when the ID needs a fix.
FieldChecksStopAtID(d) ==
  IF Len(CheckID(d).fixes) > 0 THEN <<CheckID(d)>>
  ELSE <<CheckID(d), CheckName(d), CheckRepoUrl(d), CheckLanguage(d), CheckDependencies(d),
         CheckInstall(d), CheckTest(d), CheckBuild(d)>>

\* The field checks of ValidateTo, in the order the code runs them.
FieldChecks(d) ==
  <<CheckID(d), CheckName(d), CheckRepoUrl(d), CheckLanguage(d), CheckDependencies(d),
    CheckInstall(d), CheckTest(d), CheckBuild(d)>>

RECURSIVE Flatten(_)
Flatten(ss) == IF Len(ss) = 0 THEN <<>> ELSE ss[1] \o Flatten(Tail(ss))

ChecksFixes(checks) == Flatten([i \in 1..Len(checks) |-> checks[i].fixes])

ChecksSuggestions(checks) == Flatten([i \in 1..Len(checks) |-> checks[i].suggestions])

ChecksLines(checks) == Flatten([i \in 1..Len(checks) |-> checks[i].lines])

Bullets(color, items) == [i \in 1..Len(items) |-> Line(color, "  - " \o items[i])]

\* The summary ValidateTo writes after the field checks.
Summary(fixes, suggestions) ==
  <<Line("", "=")>>
  \o (IF Len(suggestions) > 0 THEN <<Line("yellow", "Suggestions:")>> \o Bullets("yellow", suggestions) ELSE <<>>)
  \o (IF Len(fixes) > 0 THEN <<Line("red", "Fixes:")>> \o Bullets("red", fixes) ELSE <<>>)

\* Mutant: a single required fix is let through.
ValidateErrorOffByOne(fixes) ==
  IF Len(fixes) > 1
    THEN NewError("found " \o ToString(Len(fixes)) \o " required fixes")
    ELSE NilError

\* The error ValidateTo returns for the given list of fixes.
ValidateError(fixes) ==
  IF Len(fixes) > 0
    THEN NewError("found " \o ToString(Len(fixes)) \o " required fixes")
    ELSE NilError

\* ProjectDefinition.ValidateTo: the report written to w and the error returned.
ValidateTo(d) ==
  LET checks == FieldChecks(d)
      fixes == ChecksFixes(checks)
      suggestions == ChecksSuggestions(checks)
  IN [lines |-> ChecksLines(checks) \o Summary(fixes, suggestions),
      fixes |-> fixes,
      suggestions |-> suggestions,
      err |-> ValidateError(fixes)]

\* The definitions the doctor command is run on.
DepSlices == {NilSlice, MkSlice(<<>>), MkSlice(<<"requirements.txt">>)}

DoctorSteps == {NilSlice, MkSlice(<<>>), MkSlice(<<"echo a">>)}

DoctorDefinitions ==
  {ProjectDefinition(id, name, url,
     Codebase(lang, deps, Operation(FALSE, EmptyMap, ist), Operation(FALSE, EmptyMap, tst),
              Operation(FALSE, EmptyMap, bst))) :
     id \in ProjectIDs, name \in {"", "demo"}, url \in {"", "https://example.test/repo"},
     lang \in {"", "go"}, deps \in DepSlices, ist \in {NilSlice, MkSlice(<<"echo a">>)},
     tst \in DoctorSteps, bst \in DoctorSteps}

\* A definition that passes validation, carrying the operation to run.
BaseCodebase ==
  Codebase("go", MkSlice(<<"requirements.txt">>), ZeroOperation, ZeroOperation, ZeroOperation)

BaseDefinition == ProjectDefinition(<<"a", "-", "1">>, "demo", "https://example.test/repo", BaseCodebase)

WithBuild(op) == [BaseDefinition EXCEPT !.Codebase.Build = op]

WithTest(op) == [BaseDefinition EXCEPT !.Codebase.Test = op]

\* ------------------------------------------------------------------------
\* buildinfo.GetVersion
\* ------------------------------------------------------------------------
\* The definitions given to GetVersion.
Documents ==
  {"", "invalid", "null", "{}", "{\"version\":\"\"}", "{\"version\":\"1.2.3\"}",
   "{\"Version\":\"2.0.0\"}"}

\* json.Unmarshal into struct{ Version string }: the error and the field
\* afterwards. Field names are matched without regard to case; null and an
\* object without the field leave the zero value.
Unmarshal(doc) ==
  CASE doc = "" -> [err |-> NewError("unexpected end of JSON input"), Version |-> ""]
    [] doc = "invalid" ->
         [err |-> NewError("invalid character 'i' looking for beginning of value"), Version |-> ""]
    [] doc = "{\"version\":\"1.2.3\"}" -> [err |-> NilError, Version |-> "1.2.3"]
    [] doc = "{\"Version\":\"2.0.0\"}" -> [err |-> NilError, Version |-> "2.0.0"]
    [] OTHER -> [err |-> NilError, Version |-> ""]

\* GetVersion: the error of Unmarshal is a variable of the if statement; the
\* err returned for an empty version is the named result, which is nil.
GetVersion(doc) ==
  LET parsed == Unmarshal(doc)
      err == NilError
  IN IF ~parsed.err.isNil THEN [version |-> "undefined", err |-> parsed.err]
     ELSE IF parsed.Version = "" THEN [version |-> "undefined", err |-> err]
     ELSE [version |-> parsed.Version, err |-> NilError]

NoVersion == [version |-> "<none>", err |-> NilError]

\* ------------------------------------------------------------------------
\* config.WithTempEnv
\* ------------------------------------------------------------------------
MaxTempEnvs == 2

\* What os.LookupEnv returns: the value and whether the variable is set.
Unset == [ok |-> FALSE, val |-> ""]

IsSet(v) == [ok |-> TRUE, val |-> v]

EnvNames == {"HOME", "FOO", "NEW"}

\* The process environment of AmbientEnv, and one where FOO is set to the
\* empty string.
Environs ==
  {[k \in EnvNames |-> CASE k = "HOME" -> IsSet("/root") [] k = "FOO" -> IsSet(foo) [] OTHER -> Unset] :
     foo \in {"old", ""}}

AmbientEnviron ==
  [k \in EnvNames |-> CASE k = "HOME" -> IsSet("/root") [] k = "FOO" -> IsSet("old") [] OTHER -> Unset]

\* The maps given to WithTempEnv.
TempVars ==
  {EmptyMap,
   [k \in {"FOO"} |-> "bar"],
   [k \in {"NEW"} |-> "x"],
   [k \in {"FOO", "NEW"} |-> IF k = "FOO" THEN "bar" ELSE "x"],
   [k \in {""} |-> "empty_key"],
   [k \in {"NEW", ""} |-> IF k = "NEW" THEN "x" ELSE "empty_key"]}

LookupEnv(env, key) == IF key \in DOMAIN env THEN env[key] ELSE Unset

\* os.Setenv: an empty name is refused with EINVAL.
SetenvError(key) == IF key = "" THEN NewError("setenv: invalid argument") ELSE NilError

Setenv(env, key, val) ==
  IF SetenvError(key).isNil
    THEN [k \in DOMAIN env \cup {key} |-> IF k = key THEN IsSet(val) ELSE env[k]]
    ELSE env

Unsetenv(env, key) == [k \in DOMAIN env |-> IF k = key THEN Unset ELSE env[k]]

\* The loop of WithTempEnv over the keys in the order the range visits them:
\* the original is saved, the variable set, the pair logged, and the first
\* error returns.
RECURSIVE TempEnvLoop(_, _, _, _)
TempEnvLoop(env, originals, vars, order) ==
  IF order = <<>> THEN [env |-> env, originals |-> originals, err |-> NilError, logged |-> <<>>]
  ELSE LET key == Head(order)
           saved == [k \in DOMAIN originals \cup {key} |->
                       IF k = key THEN LookupEnv(env, key) ELSE originals[k]]
           line == "Using: " \o key \o "=" \o vars[key]
       IN IF ~SetenvError(key).isNil
            THEN [env |-> env, originals |-> saved, err |-> SetenvError(key), logged |-> <<line>>]
            ELSE LET rest == TempEnvLoop(Setenv(env, key, vars[key]), saved, vars, Tail(order))
                 IN [rest EXCEPT !.logged = <<line>> \o @]

\* WithTempEnv: the environment afterwards, the error, and the originals
\* the restore function holds (no restore function on error).
WithTempEnv(env, vars, order) ==
  LET r == TempEnvLoop(env, EmptyMap, vars, order)
  IN [env |-> r.env, err |-> r.err, restoreNil |-> ~r.err.isNil, originals |-> r.originals,
      logged |-> r.logged]

\* Mutant: a variable that was unset is restored to the empty string.
RestoreKeySetsEmpty(env, key, original) ==
  IF original.ok THEN Setenv(env, key, original.val) ELSE Setenv(env, key, "")

\* One iteration of the restore function.
RestoreKey(env, key, original) ==
  IF original.ok THEN Setenv(env, key, original.val) ELSE Unsetenv(env, key)

RECURSIVE RestoreLoop(_, _, _)
RestoreLoop(env, originals, order) ==
  IF order = <<>> THEN env
  ELSE RestoreLoop(RestoreKey(env, Head(order), originals[Head(order)]), originals, Tail(order))

\* ------------------------------------------------------------------------
\* DefaultExecutor.AddEnv called several times on one executor
\* ------------------------------------------------------------------------
MaxAddEnvs == 2

\* Mutant: the entries are appended to what Env already holds.
AddEnvAccumulates(Env, env) == IF Env = <<>> THEN AmbientEnv \o env ELSE Env \o env

\* Env after AddEnv(env) on an executor whose Env was Env: the previous
\* contents are dropped.
AddEnv(Env, env) == DefaultAddEnv(env)

\* ------------------------------------------------------------------------
\* State
\* ------------------------------------------------------------------------
VARIABLES
  entry,         \* how the code is entered: "main", "command" (a cobra command run on its own), "run" (Operation.Run called directly)
  executorKind,  \* the ShellExecutor in use: "default" (DefaultExecutor) or "mock" (a test double)
  command,       \* the command named on the command line
  definition,    \* the loaded ProjectDefinition
  configOk,      \* whether loadConfig succeeds
  shellOk,       \* whether the shell can be started
  pc,            \* position of the main goroutine
  idx,           \* 1-based index of the step the loop of Run is at
  ctxDone,       \* the context's cancellation flag
  sigChan,       \* number of signals buffered in channel c
  signalsSent,   \* signals delivered to the process so far
  cancelCalls,   \* number of calls of cancel()
  listener,      \* the listener goroutine: "none", "waiting", "exited"
  executorEnv,   \* DefaultExecutor.Env
  addEnvCalls,   \* the arguments of the AddEnv calls, in order
  child,         \* the child process of the Exec in flight: "none", "running", "exited", "killed"
  pending,       \* the return value of an Exec that did not start a child
  execLog,       \* the Exec calls, in order, with what each returned
  failedSteps,   \* failedSteps of Run
  runErr,        \* the error returned by Run
  trace,         \* what was written to the standard streams and handed to the logger, in order
  report,        \* what ValidateTo wrote to its writer
  cmdErr,        \* the error returned by the command (Execute)
  exitStatus,    \* exit status of the process, set when pc = "exited"
  validations,   \* the calls of ValidateTo made directly on the definition: receiver, report, error
  document,      \* the definition given to GetVersion
  versionRet,    \* what GetVersion returned
  environ,       \* the process environment WithTempEnv works on
  tempEnvs,      \* the calls of WithTempEnv, in order, with what each returned and whether it was restored
  restores,      \* the indices of the calls whose restore function ran, in order
  installs       \* the arguments of the AddEnv calls made directly on the executor, in order

vars ==
  <<entry, executorKind, command, definition, configOk, shellOk, pc, idx, ctxDone, sigChan,
    signalsSent, cancelCalls, listener, executorEnv, addEnvCalls, child, pending, execLog,
    failedSteps, runErr, trace, report, cmdErr, exitStatus, validations, document,
    versionRet, environ, tempEnvs, restores, installs>>

\* The state of the library functions called on their own.
library == <<document, versionRet, environ, tempEnvs, restores, installs>>

\* The state of the command line program.
program ==
  <<executorKind, command, definition, configOk, shellOk, idx, ctxDone, sigChan, signalsSent,
    cancelCalls, listener, addEnvCalls, child, pending, execLog, failedSteps, runErr,
    report, cmdErr, exitStatus, validations>>

inputs == <<entry, executorKind, command, definition, configOk, shellOk>>

\* Capacity of the channel made in PersistentPreRunE.
SigChanCap == 1

\* The commands main registers on the root command.
RegisteredCommands == {"build"}

\* The operation whose Run is called.
RunReceiver ==
  IF command = "test" THEN definition.Codebase.Test ELSE definition.Codebase.Build

Steps == RunReceiver.Steps.elems

Event(ev, i, text) == [ev |-> ev, idx |-> i, text |-> text]

\* An entry handed to the logger: the level, and the message followed by its
\* fields as key=value. The logger writes it to stderr when its level admits
\* it (Warn unless -v is given, Info or Debug in the tests).
Log(level, text) == Event("log." \o level, 0, text)

\* The value of the flag -f when it is not given.
DefinitionFile == "devops-definition.yaml"

Init ==
  /\ \/ /\ entry = "main"
        /\ executorKind = "default"
        /\ \/ /\ command = "build"
              /\ definition \in {WithBuild(op) : op \in Operations}
              /\ configOk \in BOOLEAN
              /\ shellOk \in BOOLEAN
           \/ /\ command \in {"test", "doctor"}
              /\ definition = BaseDefinition
              /\ configOk = TRUE
              /\ shellOk = TRUE
        /\ pc = "execute"
     \/ /\ entry = "command"
        /\ executorKind = "mock"
        /\ \/ command = "build" /\ definition \in {WithBuild(op) : op \in Operations}
           \/ command = "test" /\ definition \in {WithTest(op) : op \in Operations}
           \/ command = "doctor" /\ definition \in DoctorDefinitions
        /\ configOk = TRUE
        /\ shellOk = TRUE
        /\ pc = "handler"
     \/ /\ entry = "run"
        /\ executorKind \in {"default", "mock"}
        /\ command = "run"
        /\ definition \in {WithBuild(op) : op \in Operations}
        /\ configOk = TRUE
        /\ shellOk = TRUE
        /\ pc = "run"
     \/ /\ entry = "validate"
        /\ executorKind = "mock"
        /\ command = "validate"
        /\ definition \in DoctorDefinitions
        /\ configOk = TRUE
        /\ shellOk = TRUE
        /\ pc = "validate"
     \/ /\ entry \in {"version", "tempenv", "addenv"}
        /\ executorKind = "default"
        /\ command = entry
        /\ definition = BaseDefinition
        /\ configOk = TRUE
        /\ shellOk = TRUE
        /\ pc = "library"
  /\ document \in (IF entry = "version" THEN Documents ELSE {""})
  /\ versionRet = NoVersion
  /\ environ \in (IF entry = "tempenv" THEN Environs ELSE {AmbientEnviron})
  /\ tempEnvs = <<>>
  /\ restores = <<>>
  /\ installs = <<>>
  /\ idx = 1
  /\ ctxDone = FALSE
  /\ sigChan = 0
  /\ signalsSent = 0
  /\ cancelCalls = 0
  /\ listener = "none"
  /\ executorEnv = <<>>
  /\ addEnvCalls = <<>>
  /\ child = "none"
  /\ pending = NoPending
  /\ execLog = <<>>
  /\ failedSteps = <<>>
  /\ runErr = NilError
  /\ trace = <<>>
  /\ report = <<>>
  /\ cmdErr = NilError
  /\ exitStatus = 0
  /\ validations = <<>>

\* ------------------------------------------------------------------------
\* The root command: cobra's dispatch, PersistentPreRunE, main
\* ------------------------------------------------------------------------
\* cobra's Execute on a command main did not register: the root command
\* silences neither errors nor usage, so the error and a hint are written to
\* stderr before Execute returns the error.
ExecuteUnknown ==
  /\ pc = "execute"
  /\ command \notin RegisteredCommands
  /\ cmdErr' = NewError("unknown command \"" \o command \o "\" for \"devops\"")
  /\ trace' = trace \o
       <<Event("stderr", 0, "Error: unknown command \"" \o command \o "\" for \"devops\"\n"),
         Event("stderr", 0, "Run 'devops --help' for usage.\n")>>
  /\ pc' = "returned"
  /\ UNCHANGED <<inputs, library, validations, idx, ctxDone, sigChan, signalsSent, cancelCalls, listener, executorEnv,
                 addEnvCalls, child, pending, execLog, failedSteps, runErr, report, exitStatus>>

\* PersistentPreRunE: load the definition (the file is there and loads, or
\* it is absent, which loadConfig warns about before os.Open fails), derive
\* the cancellable context, register for SIGTERM/SIGINT and start the
\* listener goroutine.
PersistentPreRunE ==
  /\ pc = "execute"
  /\ command \in RegisteredCommands
  /\ IF ~configOk
       THEN /\ cmdErr' = NewError("failed to open config (" \o DefinitionFile \o "): open "
                                   \o DefinitionFile \o ": no such file or directory")
            /\ trace' = trace \o
                 <<Log("warn", "Config not found at given path, using default path=" \o DefinitionFile),
                   Log("trace", "Found config file path=" \o DefinitionFile)>>
            /\ pc' = "returned"
            /\ UNCHANGED listener
       ELSE /\ listener' = "waiting"
            /\ trace' = Append(trace, Log("trace", "Found config file path=" \o DefinitionFile))
            /\ pc' = "handler"
            /\ UNCHANGED cmdErr
  /\ UNCHANGED <<inputs, library, validations, idx, ctxDone, sigChan, signalsSent, cancelCalls, executorEnv,
                 addEnvCalls, child, pending, execLog, failedSteps, runErr, report, exitStatus>>

\* A SIGINT or SIGTERM reaches the process after signal.Notify: it is
\* buffered in c, or dropped when c is full.
Signal ==
  /\ listener # "none"
  /\ pc # "exited"
  /\ signalsSent < MaxSignals
  /\ signalsSent' = signalsSent + 1
  /\ sigChan' = IF sigChan < SigChanCap THEN sigChan + 1 ELSE sigChan
  /\ UNCHANGED <<inputs, library, validations, pc, idx, ctxDone, cancelCalls, listener, executorEnv, addEnvCalls,
                 child, pending, execLog, failedSteps, runErr, trace, report, cmdErr, exitStatus>>

\* Mutant: the listener loops, it waits for the next signal after cancel().
ListenerCancelLoop ==
  /\ listener = "waiting"
  /\ pc # "exited"
  /\ sigChan > 0
  /\ sigChan' = sigChan - 1
  /\ ctxDone' = TRUE
  /\ cancelCalls' = cancelCalls + 1
  /\ UNCHANGED <<inputs, library, validations, pc, idx, signalsSent, listener, executorEnv, addEnvCalls, child, pending,
                 execLog, failedSteps, runErr, trace, report, cmdErr, exitStatus>>

\* Mutant: the listener takes the signal and returns without cancel().
ListenerCancelDrop ==
  /\ listener = "waiting"
  /\ pc # "exited"
  /\ sigChan > 0
  /\ sigChan' = sigChan - 1
  /\ listener' = "exited"
  /\ UNCHANGED <<inputs, library, validations, pc, idx, ctxDone, signalsSent, cancelCalls, executorEnv, addEnvCalls,
                 child, pending, execLog, failedSteps, runErr, trace, report, cmdErr, exitStatus>>

\* The listener goroutine: case <-c: cancel().
ListenerCancel ==
  /\ listener = "waiting"
  /\ pc # "exited"
  /\ sigChan > 0
  /\ sigChan' = sigChan - 1
  /\ ctxDone' = TRUE
  /\ cancelCalls' = cancelCalls + 1
  /\ listener' = "exited"
  /\ UNCHANGED <<inputs, library, validations, pc, idx, signalsSent, executorEnv, addEnvCalls, child, pending,
                 execLog, failedSteps, runErr, trace, report, cmdErr, exitStatus>>

\* main after command.Execute() returned: the error is logged and main returns.
MainReturn ==
  /\ pc = "returned"
  /\ entry = "main"
  /\ trace' = IF cmdErr.isNil THEN trace ELSE Append(trace, Event("log.error", 0, cmdErr.msg))
  /\ exitStatus' = 0
  /\ pc' = "exited"
  /\ UNCHANGED <<inputs, library, validations, idx, ctxDone, sigChan, signalsSent, cancelCalls, listener, executorEnv,
                 addEnvCalls, child, pending, execLog, failedSteps, runErr, report, cmdErr>>

\* ------------------------------------------------------------------------
\* The commands
\* ------------------------------------------------------------------------
\* Mutant: only an absent step list counts as having no steps.
NoStepsNilOnly(op) == op.Steps.isNil

\* len(op.Steps) == 0: the test Build and Test make before calling Run.
NoSteps(op) == SliceLen(op.Steps) = 0

\* RunE of the build command up to the call of Run: ProjectDefinition.Build
\* returns nil with a warning when there are no build steps.
BuildCommand ==
  /\ pc = "handler"
  /\ command = "build"
  /\ IF NoSteps(definition.Codebase.Build)
       THEN /\ trace' = Append(trace, Event("log.warn", 0, "No build steps defined in the configuration."))
            /\ pc' = "returned"
       ELSE /\ pc' = "run"
            /\ UNCHANGED trace
  /\ UNCHANGED <<inputs, library, validations, idx, ctxDone, sigChan, signalsSent, cancelCalls, listener, executorEnv,
                 addEnvCalls, child, pending, execLog, failedSteps, runErr, report, cmdErr, exitStatus>>

\* RunE of the test command up to the call of Run.
TestCommand ==
  /\ pc = "handler"
  /\ command = "test"
  /\ IF NoSteps(definition.Codebase.Test)
       THEN /\ trace' = Append(trace, Event("log.warn", 0, "No test steps defined in the configuration."))
            /\ pc' = "returned"
       ELSE /\ pc' = "run"
            /\ UNCHANGED trace
  /\ UNCHANGED <<inputs, library, validations, idx, ctxDone, sigChan, signalsSent, cancelCalls, listener, executorEnv,
                 addEnvCalls, child, pending, execLog, failedSteps, runErr, report, cmdErr, exitStatus>>

\* The wrapping of Run's error by Build/Test and by RunE.
CommandError(cmd, e) ==
  IF e.isNil THEN NilError
  ELSE IF cmd = "build" THEN NewError("build failed: failed to run build steps: " \o e.msg)
  ELSE NewError("tests failed: failed to run test steps: " \o e.msg)

\* Build/Test and RunE after Run returned.
CommandReturn ==
  /\ pc = "run_done"
  /\ entry # "run"
  /\ cmdErr' = CommandError(command, runErr)
  /\ trace' = IF runErr.isNil
                THEN Append(trace, Event("log.info", 0,
                       IF command = "build" THEN "Build completed successfully" ELSE "Tests completed successfully"))
                ELSE trace
  /\ pc' = "returned"
  /\ UNCHANGED <<inputs, library, validations, idx, ctxDone, sigChan, signalsSent, cancelCalls, listener, executorEnv,
                 addEnvCalls, child, pending, execLog, failedSteps, runErr, report, exitStatus>>

\* Mutant: the doctor command goes on to run the build steps.
DoctorCommandRuns ==
  /\ pc = "handler"
  /\ command = "doctor"
  /\ LET v == ValidateTo(definition)
     IN /\ report' = <<Line("", "===== DEVOPS DOCTOR =====")>> \o v.lines
        /\ cmdErr' = IF v.err.isNil THEN NilError
                     ELSE NewError("validation failed: " \o v.err.msg)
        /\ UNCHANGED trace
  /\ pc' = "run"
  /\ UNCHANGED <<inputs, library, validations, idx, ctxDone, sigChan, signalsSent, cancelCalls, listener, executorEnv,
                 addEnvCalls, child, pending, execLog, failedSteps, runErr, exitStatus>>

\* RunE of the doctor command.
DoctorCommand ==
  /\ pc = "handler"
  /\ command = "doctor"
  /\ LET v == ValidateTo(definition)
     IN /\ report' = <<Line("", "===== DEVOPS DOCTOR =====")>> \o v.lines
        /\ cmdErr' = IF v.err.isNil THEN NilError
                     ELSE NewError("validation failed: " \o v.err.msg)
        /\ trace' = IF v.err.isNil
                      THEN Append(trace, Event("log.info", 0, "Project definition validated successfully"))
                      ELSE trace
  /\ pc' = "returned"
  /\ UNCHANGED <<inputs, library, validations, idx, ctxDone, sigChan, signalsSent, cancelCalls, listener, executorEnv,
                 addEnvCalls, child, pending, execLog, failedSteps, runErr, exitStatus>>

\* The receiver after ValidateTo returned: the method assigns no field of d.
AfterValidate(d) == d

\* ValidateTo called on the definition with a fresh writer, a first and a
\* second time.
ValidateCall ==
  /\ pc \in {"validate", "validated"}
  /\ LET v == ValidateTo(definition)
     IN /\ validations' = Append(validations, [receiver |-> definition, lines |-> v.lines, err |-> v.err])
        /\ trace' = IF v.err.isNil
                      THEN Append(trace, Event("log.info", 0, "Project definition validated successfully"))
                      ELSE trace
  /\ definition' = AfterValidate(definition)
  /\ pc' = IF pc = "validate" THEN "validated" ELSE "revalidated"
  /\ UNCHANGED <<entry, executorKind, command, configOk, shellOk, idx, ctxDone, sigChan,
                 signalsSent, cancelCalls, listener, executorEnv, addEnvCalls, child, pending,
                 execLog, failedSteps, runErr, report, cmdErr, exitStatus, library>>

\* ------------------------------------------------------------------------
\* Operation.Run
\* ------------------------------------------------------------------------
\* Mutant: the list holds the entries of op.Env only, without os.Environ().
MergedEnvNoAmbient(opEnv, order) ==
  [i \in 1..Len(order) |-> order[i] \o "=" \o opEnv[order[i]]]

\* Mutant: the overrides are put before the entries of os.Environ().
MergedEnvOverridesFirst(opEnv, order) ==
  [i \in 1..Len(order) |-> order[i] \o "=" \o opEnv[order[i]]] \o AmbientEnv

\* The list Run builds: os.Environ() followed by one KEY=VALUE entry per
\* entry of op.Env, in the order the range visits the map.
MergedEnv(opEnv, order) ==
  AmbientEnv \o [i \in 1..Len(order) |-> order[i] \o "=" \o opEnv[order[i]]]

\* The line Run logs when op.Env is not empty: the number of entries and
\* the keys in the order the range visited them.
EnvsAddedLine(order) ==
  "Loading additional " \o ToString(Len(order)) \o " additional environment variable(s): "
    \o FmtSlice(order)

\* Run from its entry to the step loop: build the list, log the keys added
\* and call AddEnv.
RunAddEnv ==
  /\ pc = "run"
  /\ \E order \in Perms(DOMAIN RunReceiver.Env) :
       /\ addEnvCalls' = Append(addEnvCalls, MergedEnv(RunReceiver.Env, order))
       /\ executorEnv' = IF executorKind = "default"
                           THEN DefaultAddEnv(MergedEnv(RunReceiver.Env, order))
                           ELSE executorEnv
       /\ trace' = IF Len(order) > 0 THEN Append(trace, Log("info", EnvsAddedLine(order))) ELSE trace
  /\ idx' = 1
  /\ pc' = "loop"
  /\ UNCHANGED <<inputs, library, validations, ctxDone, sigChan, signalsSent, cancelCalls, listener, child, pending,
                 execLog, failedSteps, runErr, report, cmdErr, exitStatus>>

Call(i, cmd, env, cancelled) ==
  [idx |-> i, cmd |-> cmd, env |-> env, cancelledAtCall |-> cancelled, returned |-> FALSE,
   outcome |-> "", ret |-> NoPending]

\* The loop body up to the suspension in Exec: print the header, call Exec;
\* DefaultExecutor starts the child unless the context is already done or the
\* shell cannot be started.
StepStart ==
  /\ pc = "loop"
  /\ idx <= Len(Steps)
  /\ trace' = Append(trace, Event("header", idx, "[" \o ToString(idx) \o "] " \o Steps[idx] \o "\n"))
  /\ execLog' = Append(execLog,
       Call(idx, Steps[idx], IF executorKind = "default" THEN CommandEnv(executorEnv) ELSE <<>>, ctxDone))
  /\ IF executorKind = "mock"
       THEN /\ \E r \in MockReturns : pending' = r
            /\ UNCHANGED child
       ELSE IF ctxDone
         THEN pending' = ExecCancelled(FALSE) /\ UNCHANGED child
       ELSE IF ~shellOk
         THEN pending' = ExecUnlaunchable /\ UNCHANGED child
       ELSE child' = "running" /\ UNCHANGED pending
  /\ pc' = "exec"
  /\ UNCHANGED <<inputs, library, validations, idx, ctxDone, sigChan, signalsSent, cancelCalls, listener, executorEnv,
                 addEnvCalls, failedSteps, runErr, report, cmdErr, exitStatus>>

\* The child process runs to completion.
ChildExit ==
  /\ child = "running"
  /\ ~ctxDone
  /\ child' = "exited"
  /\ UNCHANGED <<inputs, library, validations, pc, idx, ctxDone, sigChan, signalsSent, cancelCalls, listener,
                 executorEnv, addEnvCalls, pending, execLog, failedSteps, runErr, trace, report,
                 cmdErr, exitStatus>>

\* Mutant: the executor leaves the child of a cancelled context running.
KillChildNot ==
  /\ child = "running"
  /\ ctxDone
  /\ UNCHANGED vars

\* The context ended while the child runs: the executor kills the child.
KillChild ==
  /\ child = "running"
  /\ ctxDone
  /\ child' = "killed"
  /\ UNCHANGED <<inputs, library, validations, pc, idx, ctxDone, sigChan, signalsSent, cancelCalls, listener,
                 executorEnv, addEnvCalls, pending, execLog, failedSteps, runErr, trace, report,
                 cmdErr, exitStatus>>

\* What the Exec in flight returns.
ExecReturn ==
  IF pending # NoPending THEN pending
  ELSE IF child = "exited" THEN ExecCompleted(Steps[idx])
  ELSE ExecCancelled(TRUE)

ExecOutcome ==
  IF executorKind = "mock" THEN "mock"
  ELSE IF pending = ExecUnlaunchable THEN "unlaunchable"
  ELSE IF pending # NoPending \/ child = "killed" THEN "cancelled"
  ELSE "completed"

\* Mutant: only a returned error counts, the exit code is ignored.
StepFailedErrOnly(r) == ~r.err.isNil

\* Mutant: only a positive exit code counts, the error is ignored.
StepFailedPositiveCode(r) == r.result.ExitCode > 0

\* Mutant: only a nonzero exit code counts, a returned error is ignored.
StepFailedCodeOnly(r) == r.result.ExitCode # 0

\* The condition under which Run counts a step as failed.
StepFailed(r) == ~r.err.isNil \/ r.result.ExitCode # 0

\* The error Run returns when it aborts on a failed step.
FailFastError(step, r) ==
  NewError("error while running '" \o step \o "' (exit code " \o ToString(r.result.ExitCode)
           \o "): " \o FmtErr(r.err))

\* The lines Run forwards to the standard streams for a step's result.
Forwarded(i, r) ==
  (IF r.result.Stdout # "" THEN <<Event("stdout", i, r.result.Stdout \o "\n")>> ELSE <<>>)
  \o (IF r.result.Stderr # "" THEN <<Event("stderr", i, r.result.Stderr \o "\n")>> ELSE <<>>)

\* Mutant: the index does not advance: the step is executed again.
NextIndexRetry(i) == i

\* The range loop of Run: the index of the step after step i.
NextIndex(i) == i + 1

\* The loop body after Exec returned: classify the result, abort or record
\* the failure, forward the output.
StepReturn ==
  /\ pc = "exec"
  /\ pending # NoPending \/ child \in {"exited", "killed"}
  /\ execLog' = [execLog EXCEPT ![Len(execLog)] =
                   [@ EXCEPT !.returned = TRUE, !.outcome = ExecOutcome, !.ret = ExecReturn]]
  /\ IF StepFailed(ExecReturn) /\ RunReceiver.FailFast
       THEN /\ runErr' = FailFastError(Steps[idx], ExecReturn)
            /\ pc' = "run_done"
            /\ UNCHANGED <<failedSteps, trace, idx>>
       ELSE /\ failedSteps' = IF StepFailed(ExecReturn) THEN Append(failedSteps, Steps[idx])
                              ELSE failedSteps
            /\ trace' = trace \o Forwarded(idx, ExecReturn)
            /\ idx' = NextIndex(idx)
            /\ pc' = "loop"
            /\ UNCHANGED runErr
  /\ child' = "none"
  /\ pending' = NoPending
  /\ UNCHANGED <<inputs, library, validations, ctxDone, sigChan, signalsSent, cancelCalls, listener, executorEnv,
                 addEnvCalls, report, cmdErr, exitStatus>>

\* Mutant: the aggregate error names only the first failed step.
AggregateErrorFirst(failed) ==
  IF Len(failed) > 0 THEN NewError("failed to run steps: " \o FmtSlice(<<failed[1]>>)) ELSE NilError

\* Mutant: an error is returned even when no step failed.
AggregateErrorAlways(failed) == NewError("failed to run steps: " \o FmtSlice(failed))

\* The error Run returns after the loop.
AggregateError(failed) ==
  IF Len(failed) > 0 THEN NewError("failed to run steps: " \o FmtSlice(failed)) ELSE NilError

\* Run after the loop: the separator line and the aggregate error.
RunFinish ==
  /\ pc = "loop"
  /\ idx > Len(Steps)
  /\ trace' = Append(trace, Event("separator", 0, "="))
  /\ runErr' = AggregateError(failedSteps)
  /\ pc' = "run_done"
  /\ UNCHANGED <<inputs, library, validations, idx, ctxDone, sigChan, signalsSent, cancelCalls, listener, executorEnv,
                 addEnvCalls, child, pending, execLog, failedSteps, report, cmdErr, exitStatus>>

\* ------------------------------------------------------------------------
\* The library functions called on their own
\* ------------------------------------------------------------------------
GetVersionCall ==
  /\ entry = "version"
  /\ versionRet = NoVersion
  /\ versionRet' = GetVersion(document)
  /\ UNCHANGED <<entry, pc, program, trace, executorEnv, document, environ, tempEnvs, restores, installs>>

\* A call of WithTempEnv, made while the earlier calls, which all succeeded,
\* are not yet restored. The record keeps the environment before and after
\* the call, and after the restore function once it has run.
WithTempEnvCall ==
  /\ entry = "tempenv"
  /\ Len(tempEnvs) < MaxTempEnvs
  /\ \A i \in 1..Len(tempEnvs) : tempEnvs[i].err.isNil
  /\ restores = <<>>
  /\ \E given \in TempVars : \E order \in Perms(DOMAIN given) :
       LET r == WithTempEnv(environ, given, order)
       IN /\ environ' = r.env
          /\ tempEnvs' = Append(tempEnvs,
               [given |-> given, before |-> environ, after |-> r.env, err |-> r.err,
                restoreNil |-> r.restoreNil, originals |-> r.originals, restored |-> r.env])
          /\ trace' = trace \o [n \in 1..Len(r.logged) |-> Log("info", r.logged[n])]
  /\ UNCHANGED <<entry, pc, program, executorEnv, document, versionRet, restores, installs>>

\* The restore function of a call is run, once; it ends with a log entry.
RestoreCall ==
  /\ entry = "tempenv"
  /\ \E i \in 1..Len(tempEnvs) :
       /\ ~tempEnvs[i].restoreNil
       /\ \A j \in 1..Len(restores) : restores[j] # i
       /\ \E order \in Perms(DOMAIN tempEnvs[i].originals) :
            /\ environ' = RestoreLoop(environ, tempEnvs[i].originals, order)
            /\ tempEnvs' = [tempEnvs EXCEPT ![i].restored = environ']
       /\ restores' = Append(restores, i)
       /\ trace' = Append(trace, Log("debug", "Restored environment count="
                                              \o ToString(Cardinality(DOMAIN tempEnvs[i].originals))))
  /\ UNCHANGED <<entry, pc, program, executorEnv, document, versionRet, installs>>

\* The lists Run passes to AddEnv.
RunEnvLists == UNION {{MergedEnv(m, order) : order \in Perms(DOMAIN m)} : m \in EnvMaps}

\* AddEnv called on a DefaultExecutor, once per operation run with it.
AddEnvCall ==
  /\ entry = "addenv"
  /\ Len(installs) < MaxAddEnvs
  /\ \E env \in RunEnvLists :
       /\ executorEnv' = AddEnv(executorEnv, env)
       /\ installs' = Append(installs, env)
  /\ UNCHANGED <<entry, pc, program, trace, document, versionRet, environ, tempEnvs, restores>>

Next ==
  \/ ExecuteUnknown
  \/ PersistentPreRunE
  \/ Signal
  \/ ListenerCancel
  \/ MainReturn
  \/ BuildCommand
  \/ TestCommand
  \/ CommandReturn
  \/ DoctorCommand
  \/ ValidateCall
  \/ RunAddEnv
  \/ StepStart
  \/ ChildExit
  \/ KillChild
  \/ StepReturn
  \/ RunFinish
  \/ GetVersionCall
  \/ WithTempEnvCall
  \/ RestoreCall
  \/ AddEnvCall

Spec == Init /\ [][Next]_vars

\* Scheduling: a goroutine that can take a step eventually takes it (the
\* listener and the main goroutine), and the executor kills the child of a
\* cancelled context. A child process need not ever exit by itself, and a
\* signal need not ever arrive.
Fairness ==
  /\ WF_vars(ListenerCancel)
  /\ WF_vars(KillChild)
  /\ WF_vars(StepStart)
  /\ WF_vars(StepReturn)
  /\ WF_vars(RunFinish)

\* The runs of the process started by main: the only runs with a signal
\* listener, and the steps they can take.
MainInit == Init /\ entry = "main"

MainNext ==
  \/ ExecuteUnknown
  \/ PersistentPreRunE
  \/ Signal
  \/ ListenerCancel
  \/ MainReturn
  \/ BuildCommand
  \/ CommandReturn
  \/ RunAddEnv
  \/ StepStart
  \/ ChildExit
  \/ KillChild
  \/ StepReturn
  \/ RunFinish

FairSpec == MainInit /\ [][MainNext]_vars /\ Fairness

\* ------------------------------------------------------------------------
\* Properties
\* ------------------------------------------------------------------------
\* Run was called and has returned.
RunReturned ==
  \/ pc = "run_done"
  \/ pc \in {"returned", "exited"} /\ Len(addEnvCalls) > 0

\* An Exec call returned a transport error or a nonzero exit code.
CallFailed(c) == c.returned /\ (~c.ret.err.isNil \/ c.ret.result.ExitCode # 0)

\* An Exec call of DefaultExecutor that has returned.
DefaultCalls == {i \in 1..Len(execLog) : executorKind = "default" /\ execLog[i].returned}

\* C1: with failFast = true, once the step at index k has returned a
\* transport error or a nonzero exit code, Run has returned an error and the
\* failed call is the last Exec call: no step after k is passed to Exec.
C1_FailFastStops ==
  RunReceiver.FailFast =>
    \A i \in 1..Len(execLog) :
      CallFailed(execLog[i]) =>
        /\ i = Len(execLog)
        /\ RunReturned
        /\ ~runErr.isNil

C1_Witness ==
  /\ RunReceiver.FailFast
  /\ RunReturned
  /\ Len(execLog) >= 1
  /\ Len(execLog) < Len(Steps)
  /\ CallFailed(execLog[Len(execLog)])
  /\ execLog[Len(execLog)].ret.err.isNil

\* C2: with failFast = false, when Run has returned every step was passed to
\* Exec exactly once, in order, and the returned error names exactly the steps
\* whose call failed; it is nil when no call failed.
C2_CollectAll ==
  (~RunReceiver.FailFast /\ RunReturned) =>
    /\ Len(execLog) = Len(Steps)
    /\ \A i \in 1..Len(execLog) :
         execLog[i].idx = i /\ execLog[i].cmd = Steps[i] /\ execLog[i].returned
    /\ LET failed == SelectSeq(execLog, CallFailed)
       IN runErr = IF Len(failed) = 0 THEN NilError
                   ELSE NewError("failed to run steps: "
                                 \o FmtSlice([i \in 1..Len(failed) |-> failed[i].cmd]))

C2_Witness ==
  /\ ~RunReceiver.FailFast
  /\ RunReturned
  /\ Len(execLog) = 3
  /\ CallFailed(execLog[1])
  /\ ~CallFailed(execLog[2])
  /\ CallFailed(execLog[3])

\* C3 as claimed: for an empty step list Run returns success without any
\* call on the executor, neither AddEnv nor Exec.
C3_Original ==
  (pc = "run_done" /\ Len(Steps) = 0) =>
    runErr.isNil /\ execLog = <<>> /\ addEnvCalls = <<>>

\* C3 amended: for an empty step list Run returns success without calling
\* Exec; AddEnv is still called exactly once, with the merged environment.
C3_EmptyRun ==
  (pc = "run_done" /\ Len(Steps) = 0) =>
    /\ runErr.isNil
    /\ execLog = <<>>
    /\ Len(addEnvCalls) = 1
    /\ \E order \in Perms(DOMAIN RunReceiver.Env) :
         addEnvCalls[1] = MergedEnv(RunReceiver.Env, order)

C3_Witness ==
  /\ pc = "run_done"
  /\ Len(Steps) = 0
  /\ RunReceiver.Env # EmptyMap
  /\ Len(addEnvCalls) = 1

\* An Exec call whose child was killed because the context ended while the
\* step was executing.
KilledInFlight(c) == c.returned /\ c.outcome = "cancelled" /\ ~c.cancelledAtCall

\* C4 as claimed: when the context is cancelled while a step is executing,
\* Run returns an error and no later step is passed to Exec, for either value
\* of failFast.
C4_Original ==
  \A i \in 1..Len(execLog) :
    KilledInFlight(execLog[i]) =>
      /\ i = Len(execLog)
      /\ RunReturned => ~runErr.isNil

\* C4 amended: when the context is cancelled while a step is executing, Run
\* returns an error for either value of failFast. With failFast = true no
\* later step is passed to Exec. With failFast = false every later step is
\* still passed to Exec, under the cancelled context: each such call returns
\* exit code -1 with an error and its step is named in the returned error.
C4_CancelFatal ==
  \A i \in 1..Len(execLog) :
    KilledInFlight(execLog[i]) =>
      /\ RunReturned => ~runErr.isNil
      /\ RunReceiver.FailFast => i = Len(execLog)
      /\ ~RunReceiver.FailFast =>
           /\ RunReturned => Len(execLog) = Len(Steps)
           /\ \A j \in (i + 1)..Len(execLog) :
                /\ execLog[j].cancelledAtCall
                /\ execLog[j].returned =>
                     /\ execLog[j].ret.result.ExitCode = -1
                     /\ ~execLog[j].ret.err.isNil
           /\ RunReturned =>
                runErr = NewError("failed to run steps: "
                                  \o FmtSlice(failedSteps))
                /\ Len(failedSteps) >= Len(execLog) - i + 1

C4_Witness ==
  /\ ~RunReceiver.FailFast
  /\ RunReturned
  /\ Len(execLog) = 3
  /\ ~CallFailed(execLog[1])
  /\ KilledInFlight(execLog[2])
  /\ execLog[3].cancelledAtCall

\* C5 as claimed: a command that runs to completion with a nonzero status
\* makes Exec return a nil error and that status as ExitCode; only a command
\* that cannot be launched or a cancellation gives a non-nil error.
C5_Original ==
  \A i \in DefaultCalls :
    /\ execLog[i].outcome = "completed" =>
         /\ execLog[i].ret.err.isNil
         /\ execLog[i].ret.result.ExitCode = CommandBehaviour(execLog[i].cmd).status
    /\ ~execLog[i].ret.err.isNil => execLog[i].outcome \in {"unlaunchable", "cancelled"}

\* C5 amended: a command that runs to completion makes Exec return its exit
\* status as ExitCode, together with a non-nil error when the status is
\* nonzero; the error is nil only for a command that exits with status zero.
C5_ExitCodeAndError ==
  \A i \in DefaultCalls :
    /\ execLog[i].outcome = "completed" =>
         /\ execLog[i].ret.result.ExitCode = CommandBehaviour(execLog[i].cmd).status
         /\ execLog[i].ret.err.isNil <=> CommandBehaviour(execLog[i].cmd).status = 0
    /\ execLog[i].outcome \in {"unlaunchable", "cancelled"} => ~execLog[i].ret.err.isNil

C5_Witness ==
  \E i \in DefaultCalls :
    /\ execLog[i].outcome = "completed"
    /\ execLog[i].ret.result.ExitCode = 2
    /\ ~execLog[i].ret.err.isNil

\* C6: a command whose context ended before its process exited, an already
\* cancelled context included, makes Exec return ExitCode -1 with a non-nil
\* error and empty Stdout and Stderr.
C6_CancelledResult ==
  \A i \in DefaultCalls :
    (execLog[i].cancelledAtCall \/ execLog[i].outcome = "cancelled") =>
      /\ execLog[i].ret.result.ExitCode = -1
      /\ ~execLog[i].ret.err.isNil
      /\ execLog[i].ret.result.Stdout = ""
      /\ execLog[i].ret.result.Stderr = ""

C6_Witness ==
  /\ Len(execLog) >= 2
  /\ 1 \in DefaultCalls
  /\ 2 \in DefaultCalls
  /\ KilledInFlight(execLog[1])
  /\ execLog[2].cancelledAtCall

\* C7: the process exits with a nonzero status exactly when the command
\* (build, test or doctor) returned an error.
C7_ExitStatus ==
  pc = "exited" => (exitStatus # 0 <=> ~cmdErr.isNil)

\* C8: every KEY=VALUE entry of the operation's env map is in the environment
\* of every command DefaultExecutor runs for the operation's steps.
C8_EnvVisible ==
  \A i \in 1..Len(execLog) :
    executorKind = "default" =>
      \A k \in DOMAIN RunReceiver.Env :
        \E j \in 1..Len(execLog[i].env) :
          execLog[i].env[j] = k \o "=" \o RunReceiver.Env[k]

\* The doctor command has run.
DoctorDone == command = "doctor" /\ entry = "command" /\ pc = "returned"

\* The lines of the report written by the field checks: those before the
\* separator line.
RECURSIVE FieldLines(_)
FieldLines(lines) ==
  IF Len(lines) = 0 \/ lines[1] = Line("", "=") THEN <<>>
  ELSE <<lines[1]>> \o FieldLines(Tail(lines))

IsRed(l) == l.color = "red"

IsYellow(l) == l.color = "yellow"

\* The number of field checks reported as fix-required.
FixRequired == Len(SelectSeq(FieldLines(report), IsRed))

Warnings == Len(SelectSeq(FieldLines(report), IsYellow))

\* C9: validation returns an error exactly when at least one field check was
\* reported as fix-required, and the error names the number of them; with
\* warnings only the result is nil.
C9_Verdict ==
  DoctorDone =>
    cmdErr = IF FixRequired >= 1
               THEN NewError("validation failed: found " \o ToString(FixRequired) \o " required fixes")
               ELSE NilError

C9_Witness ==
  /\ DoctorDone
  /\ FixRequired = 1
  /\ Warnings = 3
  /\ ~cmdErr.isNil

\* C10: the only fix-required conditions are a missing or malformed ID and an
\* empty language: the number of required fixes is the number of these two
\* that hold, so a valid ID with an empty language gives one and the empty
\* definition gives two.
C10_FixConditions ==
  DoctorDone =>
    FixRequired = (IF validateProjectName(definition.ID).isNil THEN 0 ELSE 1)
                  + (IF definition.Codebase.Language = "" THEN 1 ELSE 0)

\* The line is in the report.
InReport(l) == \E i \in 1..Len(report) : report[i] = l

IsSuggestion(l) == l.color = "yellow" /\ l.text # "Suggestions:"

\* The number of suggestions listed in the summary of the report.
SuggestionBullets == Len(SelectSeq(report, IsSuggestion)) - Warnings

\* C11: for the test operation and for the build operation, a step list with
\* zero steps, absent or an empty list, makes ValidateTo report a warning line
\* and one suggestion for that operation, and never a required fix.
C11_ZeroStepsWarn ==
  DoctorDone =>
    /\ SliceLen(definition.Codebase.Test.Steps) = 0 =>
         /\ InReport(Line("yellow", "[~] No test steps defined"))
         /\ InReport(Line("yellow", "  - Set test steps in the codebase"))
         /\ CheckTest(definition).fixes = <<>>
    /\ SliceLen(definition.Codebase.Build.Steps) = 0 =>
         /\ InReport(Line("yellow", "[~] No build steps defined"))
         /\ InReport(Line("yellow", "  - Set build steps in the codebase"))
         /\ CheckBuild(definition).fixes = <<>>

\* C12: when the dependency list is missing, ValidateTo reports a warning
\* line and adds a suggestion to the suggestions list, so every warning of
\* the report has its suggestion, and never a required fix.
C12_MissingDependencies ==
  (DoctorDone /\ definition.Codebase.Dependencies.isNil) =>
    /\ InReport(Line("yellow", "[~] No dependencies defined"))
    /\ SuggestionBullets = Warnings
    /\ CheckDependencies(definition).fixes = <<>>

\* The first format rule the ID violates, in the order length (30 or more
\* characters), emptiness, first character is a letter, no whitespace,
\* character set; the empty string when the ID violates none.
FirstViolatedRule(id) ==
  IF Len(id) >= NameLimit
    THEN "ID must be under 30 characters (current: " \o ToString(Len(id)) \o ")"
  ELSE IF id = <<>> THEN "ID cannot be empty"
  ELSE IF id[1] \notin Letters THEN "ID must start with a letter"
  ELSE IF \E i \in 1..Len(id) : id[i] \in Spaces THEN "ID cannot contain whitespace"
  ELSE IF \E i \in 1..Len(id) : id[i] \notin Letters \cup Digits \cup {"_", "-"}
    THEN "ID can only contain letters, numbers, dashes, and underscores"
  ELSE ""

\* C13: for every ID that violates a format rule, validateProjectName
\* reports the first violated rule in the order length, emptiness, first
\* character is a letter, no whitespace, character set, and ValidateTo shows
\* that message as a required fix (an empty ID as "ID is required").
C13_FirstViolatedRule ==
  (DoctorDone /\ FirstViolatedRule(definition.ID) # "") =>
    /\ ~cmdErr.isNil
    /\ IF definition.ID = <<>>
         THEN InReport(Line("red", "[x] ID is required"))
         ELSE /\ validateProjectName(definition.ID) = NewError(FirstViolatedRule(definition.ID))
              /\ InReport(Line("red", "[x] Invalid ID: " \o FirstViolatedRule(definition.ID)))

\* C14: the listener cancels the context on a signal it received, and
\* cancel is called exactly once however many signals arrive: the context is
\* done exactly when the listener has taken a signal and called cancel, after
\* which the listener has returned.
C14_CancelOnce ==
  /\ cancelCalls <= 1
  /\ ctxDone <=> cancelCalls = 1
  /\ listener = "exited" <=> cancelCalls = 1
  /\ cancelCalls = 1 => signalsSent >= 1

C14_Witness ==
  /\ cancelCalls = 1
  /\ signalsSent >= 2
  /\ sigChan = 1
  /\ ctxDone

\* The Exec call number i is in flight with its child running, and a signal
\* has arrived that the listener has not taken yet.
SignalledInFlight(i) ==
  /\ Len(execLog) = i
  /\ child = "running"
  /\ sigChan > 0
  /\ listener = "waiting"

\* C15 as stated: when a signal arrives while the child of a step runs,
\* then, the listener being scheduled, the context is eventually cancelled,
\* that Exec returns with its child terminated and Run returns; and no child
\* is running once Run has returned.
C15_Original ==
  /\ \A i \in 1..MaxSteps :
       SignalledInFlight(i) ~>
         /\ Len(execLog) >= i
         /\ ctxDone
         /\ execLog[i].returned
         /\ RunReturned
         /\ child = "none"
  /\ [](RunReturned => child = "none")

\* C15: when a signal arrives while the child of a step runs, then, the
\* listener being scheduled, that Exec returns and Run returns, and no child
\* is running once Run has returned. Either the context was cancelled while
\* the call was in flight and the child killed (exit code -1 and an error),
\* or the child exited by itself before the listener ran and Exec returned
\* its result. The context is eventually cancelled unless the process has
\* exited before the listener ran.
C15_SignalEndsRun ==
  /\ \A i \in 1..MaxSteps :
       SignalledInFlight(i) ~>
         /\ Len(execLog) >= i
         /\ RunReturned
         /\ child = "none"
         /\ execLog[i].returned
         /\ \/ /\ KilledInFlight(execLog[i])
               /\ ctxDone
               /\ execLog[i].ret.result.ExitCode = -1
               /\ ~execLog[i].ret.err.isNil
            \/ execLog[i].outcome = "completed"
  /\ \A i \in 1..MaxSteps : SignalledInFlight(i) ~> (ctxDone \/ pc = "exited")
  /\ [](RunReturned => child = "none")

C15_Witness ==
  /\ entry = "main"
  /\ RunReturned
  /\ \E i \in 1..Len(execLog) : KilledInFlight(execLog[i])

\* The position in the trace of the first event ev of step i, 0 if none.
EventAt(ev, i) ==
  IF \E j \in 1..Len(trace) : trace[j].ev = ev /\ trace[j].idx = i
    THEN CHOOSE j \in 1..Len(trace) :
           /\ trace[j].ev = ev /\ trace[j].idx = i
           /\ \A k \in 1..(j - 1) : ~(trace[k].ev = ev /\ trace[k].idx = i)
    ELSE 0

\* The captured stream of call i is empty, or it was written to the standard
\* stream after the header of step i and before the header of step i + 1.
StreamForwarded(ev, i, text) ==
  text # "" =>
    /\ EventAt(ev, i) > EventAt("header", i)
    /\ trace[EventAt(ev, i)].text = text \o "\n"
    /\ EventAt("header", i + 1) # 0 => EventAt(ev, i) < EventAt("header", i + 1)

\* C16: for every step Run has executed, the step's non-empty captured
\* stdout and stderr have been forwarded to the standard streams once the
\* step is over, before the next step starts or Run returns, whether or not
\* the step failed.
C16_OutputForwarded ==
  \A i \in 1..Len(execLog) :
    execLog[i].returned =>
      /\ StreamForwarded("stdout", i, execLog[i].ret.result.Stdout)
      /\ StreamForwarded("stderr", i, execLog[i].ret.result.Stderr)

\* The separator lines Run has printed.
IsSeparator(e) == e.ev = "separator"

\* C17: when Run returns, on success, on an aggregated failure and on a
\* fail-fast abort, it has printed the separator exactly once, after the
\* output of its last step.
C17_Separator ==
  pc = "run_done" =>
    /\ Len(SelectSeq(trace, IsSeparator)) = 1
    /\ IsSeparator(trace[Len(trace)])

\* C18: in every call of Run, AddEnv is called exactly once, before the
\* first Exec, with the merged environment (the process environment followed
\* by one KEY=VALUE entry per entry of the operation's env), and never again
\* during that run; Exec is called once per step that is reached.
C18_AddEnvOnce ==
  /\ Len(addEnvCalls) <= 1
  /\ pc = "run" => addEnvCalls = <<>> /\ execLog = <<>>
  /\ (pc \in {"loop", "exec", "run_done"} \/ Len(execLog) > 0) =>
       /\ Len(addEnvCalls) = 1
       /\ Len(addEnvCalls[1]) = Len(AmbientEnv) + Cardinality(DOMAIN RunReceiver.Env)
       /\ SubSeq(addEnvCalls[1], 1, Len(AmbientEnv)) = AmbientEnv
       /\ \A k \in DOMAIN RunReceiver.Env :
            \E j \in (Len(AmbientEnv) + 1)..Len(addEnvCalls[1]) :
              addEnvCalls[1][j] = k \o "=" \o RunReceiver.Env[k]
  /\ pc = "loop" => Len(execLog) = idx - 1
  /\ pc = "exec" => Len(execLog) = idx
  /\ \A i \in 1..Len(execLog) : execLog[i].idx = i

C18_Witness ==
  /\ pc = "run_done"
  /\ Len(execLog) = 3
  /\ Len(addEnvCalls) = 1
  /\ Cardinality(DOMAIN RunReceiver.Env) = 2

\* The commands of the calls of the log that failed, in order.
FailedCommands ==
  [i \in 1..Len(SelectSeq(execLog, CallFailed)) |-> SelectSeq(execLog, CallFailed)[i].cmd]

\* C19: the steps of an operation run one at a time and in list order: the
\* Exec calls are a prefix of the step list, each step at most once; only
\* the last call can be in flight, and when a step is started every earlier
\* call has returned and has been classified (recorded in failedSteps when
\* it failed; with failFast no earlier call has failed).
C19_Sequential ==
  /\ Len(execLog) <= Len(Steps)
  /\ \A i \in 1..Len(execLog) : execLog[i].idx = i /\ execLog[i].cmd = Steps[i]
  /\ \A i \in 1..(Len(execLog) - 1) :
       /\ execLog[i].returned
       /\ RunReceiver.FailFast => ~CallFailed(execLog[i])
  /\ child # "none" => pc = "exec" /\ ~execLog[Len(execLog)].returned
  /\ ~RunReceiver.FailFast => failedSteps = FailedCommands

C19_Witness ==
  /\ ~RunReceiver.FailFast
  /\ pc = "exec"
  /\ child = "running"
  /\ Len(execLog) = 3
  /\ CallFailed(execLog[1])
  /\ CallFailed(execLog[2])
  /\ execLog[1].cmd = execLog[2].cmd

\* C21: the doctor command and ValidateTo never call Exec or AddEnv on the
\* executor, whatever the definition and the verdict.
C21_DoctorNoExecutor ==
  command \in {"doctor", "validate"} =>
    /\ execLog = <<>>
    /\ addEnvCalls = <<>>
    /\ executorEnv = <<>>
    /\ child = "none"

C21_Witness ==
  /\ DoctorDone
  /\ ~cmdErr.isNil
  /\ SliceLen(definition.Codebase.Build.Steps) > 0
  /\ SliceLen(definition.Codebase.Test.Steps) > 0

\* The handler of the build or test command is run.
HandlerRuns ==
  \/ entry = "command" /\ command \in {"build", "test"}
  \/ entry = "main" /\ command = "build" /\ configOk

\* C24: Build and Test on an operation with zero steps, a nil or an empty
\* list, make no call on the executor, neither AddEnv nor Exec, and return
\* nil after logging a warning.
C24_EmptyOperation ==
  (HandlerRuns /\ Len(Steps) = 0) =>
    /\ execLog = <<>>
    /\ addEnvCalls = <<>>
    /\ pc \in {"returned", "exited"} =>
         /\ cmdErr.isNil
         /\ \E i \in 1..Len(trace) :
              /\ trace[i].ev = "log.warn"
              /\ trace[i].text = IF command = "build"
                                   THEN "No build steps defined in the configuration."
                                   ELSE "No test steps defined in the configuration."

C24_Witness ==
  /\ entry = "command"
  /\ command = "test"
  /\ RunReceiver.Steps = MkSlice(<<>>)
  /\ pc = "returned"
  /\ cmdErr.isNil

\* C25: the list Run passes to AddEnv is the ambient entries followed by one
\* KEY=VALUE entry per override: every override comes after every ambient
\* entry, an ambient entry whose key is overridden is kept, and the length
\* is the number of ambient entries plus the number of overrides.
C25_MergedList ==
  \A c \in 1..Len(addEnvCalls) :
    /\ Len(addEnvCalls[c]) = Len(AmbientEnv) + Cardinality(DOMAIN RunReceiver.Env)
    /\ \A i \in 1..Len(AmbientEnv) : addEnvCalls[c][i] = AmbientEnv[i]
    /\ \A k \in DOMAIN RunReceiver.Env :
         Cardinality({j \in (Len(AmbientEnv) + 1)..Len(addEnvCalls[c]) :
                        addEnvCalls[c][j] = k \o "=" \o RunReceiver.Env[k]}) = 1

C25_Witness ==
  /\ Len(addEnvCalls) = 1
  /\ addEnvCalls[1] = <<"HOME=/root", "FOO=old", "NEW=x", "FOO=bar">>

\* C27: ValidateTo completes the sweep of the fields: the report holds the
\* line of every field check, in the fixed order, however many earlier checks
\* needed a fix; the summary follows, and an error is returned together with
\* the list of fixes only.
C27_FullSweep ==
  DoctorDone =>
    LET d == definition
        expected == CheckID(d).lines \o CheckName(d).lines \o CheckRepoUrl(d).lines
                    \o CheckLanguage(d).lines \o CheckDependencies(d).lines
                    \o CheckInstall(d).lines \o CheckTest(d).lines \o CheckBuild(d).lines
    IN /\ Len(report) >= Len(expected) + 2
       /\ SubSeq(report, 2, Len(expected) + 1) = expected
       /\ report[Len(expected) + 2] = Line("", "=")
       /\ ~cmdErr.isNil <=> InReport(Line("red", "Fixes:"))
       /\ Len(SelectSeq(report, IsRed)) = IF FixRequired = 0 THEN 0 ELSE 2 * FixRequired + 1

C27_Witness ==
  /\ DoctorDone
  /\ FixRequired = 3
  /\ report[2] = Line("red", "[x] ID is required")
  /\ InReport(Line("green", "[v] Build steps (1)"))
  /\ InReport(Line("yellow", "[~] No test steps defined"))

\* C28: the listener goroutine has exited by the end of every invocation,
\* after the first signal or when the command is over without a signal, and
\* once it has exited the process intercepts no further signal.
C28_ListenerStops ==
  /\ (pc = "exited" /\ listener # "none") => listener = "exited"
  /\ listener = "exited" => sigChan = 0

\* C29: for either value of failFast, Run returns nil exactly when every
\* step was executed and each returned a nil error and exit code 0: a step
\* with a non-nil error and exit code 0 has failed, and so has a step with a
\* nil error and a nonzero exit code.
C29_NilIffAllPassed ==
  pc = "run_done" =>
    (runErr.isNil <=>
       /\ Len(execLog) = Len(Steps)
       /\ \A i \in 1..Len(execLog) :
            /\ execLog[i].returned
            /\ execLog[i].ret.err.isNil
            /\ execLog[i].ret.result.ExitCode = 0)

C29_Witness ==
  /\ pc = "run_done"
  /\ ~runErr.isNil
  /\ Len(execLog) = Len(Steps)
  /\ \A i \in 1..Len(execLog) : execLog[i].ret.result.ExitCode = 0
  /\ \E i \in 1..Len(execLog) : ~execLog[i].ret.err.isNil

\* C22: GetVersion returns the version and a nil error for valid JSON with a
\* non-empty version, and "undefined" with a non-nil error in every other
\* case: unparsable JSON, and valid JSON whose version is missing or empty.
C22_VersionOrError ==
  versionRet # NoVersion =>
    LET parsed == Unmarshal(document)
    IN IF parsed.err.isNil /\ parsed.Version # ""
         THEN versionRet = [version |-> parsed.Version, err |-> NilError]
         ELSE versionRet.version = "undefined" /\ ~versionRet.err.isNil

\* C23: after a successful WithTempEnv every key of the map holds the given
\* value; after its restore function every key of the map holds the value it
\* had before the call, or is unset if it was unset; and two nested calls on
\* disjoint keys restored in reverse order leave the environment as it was
\* before the first call.
C23_RoundTrip ==
  /\ \A i \in 1..Len(tempEnvs) :
       tempEnvs[i].err.isNil =>
         \A k \in DOMAIN tempEnvs[i].given :
           LookupEnv(tempEnvs[i].after, k) = IsSet(tempEnvs[i].given[k])
  /\ \A j \in 1..Len(restores) :
       \A k \in DOMAIN tempEnvs[restores[j]].given :
         LookupEnv(tempEnvs[restores[j]].restored, k) = LookupEnv(tempEnvs[restores[j]].before, k)
  /\ (/\ Len(tempEnvs) = 2
      /\ restores = <<2, 1>>
      /\ DOMAIN tempEnvs[1].given \cap DOMAIN tempEnvs[2].given = {})
       => environ = tempEnvs[1].before

C23_Witness ==
  /\ Len(tempEnvs) = 2
  /\ restores = <<2, 1>>
  /\ DOMAIN tempEnvs[1].given = {"FOO"}
  /\ DOMAIN tempEnvs[2].given = {"NEW"}
  /\ tempEnvs[2].after["FOO"] = IsSet("bar")
  /\ tempEnvs[2].after["NEW"] = IsSet("x")
  /\ environ["FOO"] = IsSet("")
  /\ environ["NEW"] = Unset

\* C26: after any sequence of AddEnv calls on one executor, Env holds the
\* ambient entries followed by the entries of the most recent call only; an
\* entry of an earlier call that the last call does not give is not in Env.
C26_NoAccumulation ==
  (entry = "addenv" /\ installs # <<>>) =>
    /\ executorEnv = AmbientEnv \o installs[Len(installs)]
    /\ \A i \in 1..(Len(installs) - 1) : \A n \in 1..Len(installs[i]) :
         (\A m \in 1..Len(AmbientEnv \o installs[Len(installs)]) :
            (AmbientEnv \o installs[Len(installs)])[m] # installs[i][n])
           => \A m \in 1..Len(executorEnv) : executorEnv[m] # installs[i][n]

C26_Witness ==
  /\ entry = "addenv"
  /\ Len(installs) = 2
  /\ \E n \in 1..Len(installs[1]) : installs[1][n] = "NEW=x"
  /\ installs[2] = AmbientEnv
  /\ executorEnv = AmbientEnv \o AmbientEnv

\* C30: when WithTempEnv returns an error it returns no restore function and
\* the process environment is as it was before the call.
C30_ErrorLeavesEnv ==
  \A i \in 1..Len(tempEnvs) :
    ~tempEnvs[i].err.isNil =>
      /\ tempEnvs[i].restoreNil
      /\ tempEnvs[i].after = tempEnvs[i].before
====
